---- MODULE Spec2Model ----
(***************************************************************************)
(* Battle resolution engine of pokemonML: Pokemon / Stats / Move entities, *)
(* PokemonDamageCalculator, RightMoveMachine, Team and the multi-turn      *)
(* simulate_battle loop of GUI/appbis.py.                                  *)
(*                                                                         *)
(* Numbers.  Python computes damage in floating point.  Here a real is an  *)
(* exact fraction <<num, den>>; a damage_range bound (a value rounded to 2 *)
(* decimals) is kept as an integer count of hundredths; a type multiplier  *)
(* is kept in halves and a combined effectiveness in quarters.             *)
(* Python lists are 0-indexed, and so are the indices of this model.       *)
(***************************************************************************)
EXTENDS Integers, Sequences, FiniteSets, TLC

VARIABLES team, pc, turn_count, max_turns, battle_log, winner, loser,
          first_team, best_move, attack_result, raised, ret, calls, held

vars == <<team, pc, turn_count, max_turns, battle_log, winner, loser,
          first_team, best_move, attack_result, raised, ret, calls, held>>

\* ------------------------------------------------------------------ bounds
\* largest turn cap handed to simulate_battle
MaxTurns == 3
\* number of library calls made before a battle is started
MaxCalls == 2

\* ------------------------------------------------------------ small helpers
Max(a, b) == IF a >= b THEN a ELSE b
Min(a, b) == IF a <= b THEN a ELSE b

\* Python list indexing: 0-based, negative indices count from the end.
ValidIndex(list, i) == i >= 0 - Len(list) /\ i < Len(list)
At(list, i) == IF i >= 0 THEN list[i + 1] ELSE list[Len(list) + i + 1]
Norm(list, i) == IF i >= 0 THEN i ELSE Len(list) + i

\* round(x, 2) of the fraction n/d, as a count of hundredths is obtained by
\* rounding 100*n/d to the nearest integer, ties to the even one.
RoundHalfEven(n, d) ==
    LET q == n \div d
        r == n % d
    IN  IF 2 * r < d THEN q
        ELSE IF 2 * r > d THEN q + 1
        ELSE IF q % 2 = 0 THEN q ELSE q + 1

\* int(x) for a non-negative fraction
IntOf(n, d) == n \div d

None == "None"

\* the value a local variable holds after `x = e`: the single element of {e},
\* computed once where the assignment stands
Only(S) == CHOOSE x \in S : TRUE

\* ------------------------------------------------------------------ stats.py
tabCritChance == <<625, 1250, 5000, 10000>>   \* in 1/10000

Stats(health, attack, defense, attack_spe, defense_spe, speed) ==
    [health |-> health, attack |-> attack, defense |-> defense,
     attack_spe |-> attack_spe, defense_spe |-> defense_spe, speed |-> speed,
     accuracy |-> 6, evasion |-> 6, critChance |-> 0]

get_crit_chance(stats) == tabCritChance[stats.critChance + 1]

MaxCritStage == 3

increase_crit_chance(stats) ==
    IF stats.critChance < MaxCritStage THEN [stats EXCEPT !.critChance = @ + 1] ELSE stats

decrease_crit_chance(stats) ==
    IF stats.critChance > 0 THEN [stats EXCEPT !.critChance = @ - 1] ELSE stats

\* lines 208-238
MaxStage == 12

\* increase_accuracy without the test of the bound
increase_accuracy_Unbounded(stats) == [stats EXCEPT !.accuracy = @ + 1]

increase_accuracy(stats) ==
    IF stats.accuracy < MaxStage THEN [stats EXCEPT !.accuracy = @ + 1] ELSE stats

decrease_accuracy(stats) ==
    IF stats.accuracy > 0 THEN [stats EXCEPT !.accuracy = @ - 1] ELSE stats

increase_evasion(stats) ==
    IF stats.evasion < MaxStage THEN [stats EXCEPT !.evasion = @ + 1] ELSE stats

decrease_evasion(stats) ==
    IF stats.evasion > 0 THEN [stats EXCEPT !.evasion = @ - 1] ELSE stats

\* ------------------------------------------------------------------ moves.py
Move(name, element, damage, category, accuracy, pp, priority) ==
    [name |-> name, element |-> element, damage |-> damage,
     damage_class |-> category, accuracy |-> accuracy, pp |-> pp,
     priority |-> 0]

\* --------------------------------------------------------- create_pokemon.py
Pokemon(name, stats, type1, type2, level) ==
    [name |-> name, base_stats |-> stats, current_stats |-> stats,
     type1 |-> type1, type2 |-> type2, level |-> level, moves |-> <<>>]

MaxMoves == 4

add_move_raises(p) == ~(Len(p.moves) < MaxMoves)

\* add_move without the test on the length
add_move_Unchecked(p, move) == [p EXCEPT !.moves = Append(@, move)]

add_move(p, move) ==
    IF Len(p.moves) < MaxMoves THEN [p EXCEPT !.moves = Append(@, move)] ELSE p

take_damage(p, damage) ==
    [p EXCEPT !.current_stats.health = Max(0, @ - damage)]

\* heal without the cap at the maximum
heal_Uncapped(p, amount) ==
    [p EXCEPT !.current_stats.health = @ + amount]

heal(p, amount) ==
    [p EXCEPT !.current_stats.health = Min(p.base_stats.health, @ + amount)]

\* Pokemon.is_fainted is called by Team and simulate_battle but defined
\* nowhere in the sources: a combatant is fainted when its health reached 0.
is_fainted(p) == p.current_stats.health = 0

\* ------------------------------------------------------------------- team.py
Team(pokemons, name) == [name |-> name, pokemons |-> pokemons, active_index |-> 0]

active_pokemon(t) == At(t.pokemons, t.active_index)

\* is_defeated looking at the member on the field only
is_defeated_ActiveOnly(t) == is_fainted(active_pokemon(t))

is_defeated(t) == \A i \in 1..Len(t.pokemons) : is_fainted(t.pokemons[i])

RECURSIVE SwitchesFrom(_, _)
SwitchesFrom(t, i) ==
    IF i >= Len(t.pokemons) THEN <<>>
    ELSE IF i # t.active_index /\ ~is_fainted(At(t.pokemons, i))
         THEN <<i>> \o SwitchesFrom(t, i + 1)
         ELSE SwitchesFrom(t, i + 1)

\* the candidates listed from the end of the roster
get_available_switches_Reversed(t) ==
    LET s == SwitchesFrom(t, 0) IN [i \in 1..Len(s) |-> s[Len(s) + 1 - i]]

get_available_switches(t) == SwitchesFrom(t, 0)

\* switch_to without the test of the target's health
switch_to_raises_NoFaintTest(t, index) ==
    IF index = t.active_index THEN "ValueError"
    ELSE IF ~ValidIndex(t.pokemons, index) THEN "IndexError"
    ELSE ""

\* the exception switch_to raises for this index, "" when it succeeds
switch_to_raises(t, index) ==
    IF index = t.active_index THEN "ValueError"
    ELSE IF ~ValidIndex(t.pokemons, index) THEN "IndexError"
    ELSE IF is_fainted(At(t.pokemons, index)) THEN "ValueError"
    ELSE ""

\* a switch that calls reset_stats on the member leaving the field
switch_to_ResetOutgoing(t, index) ==
    IF switch_to_raises(t, index) = ""
    THEN [t EXCEPT !.pokemons[Norm(t.pokemons, t.active_index) + 1].current_stats
                       = active_pokemon(t).base_stats,
                   !.active_index = index]
    ELSE t

switch_to(t, index) ==
    IF switch_to_raises(t, index) = "" THEN [t EXCEPT !.active_index = index] ELSE t

\* ----------------------------------------------------------------- damage.py
\* The type chart is data handed to the calculator (a CSV indexed by the
\* attacking type).  The chart used here, multipliers in halves:
TypeChart ==
    [a \in {"Fire", "Water", "Grass", "Normal", "Ghost"} |->
       [d \in {"Fire", "Water", "Grass", "Normal", "Ghost"} |->
          CASE a = "Fire"   /\ d = "Grass"  -> 4
            [] a = "Fire"   /\ d \in {"Fire", "Water"} -> 1
            [] a = "Water"  /\ d = "Fire"   -> 4
            [] a = "Water"  /\ d \in {"Water", "Grass"} -> 1
            [] a = "Grass"  /\ d = "Water"  -> 4
            [] a = "Grass"  /\ d \in {"Fire", "Grass"} -> 1
            [] a = "Normal" /\ d = "Ghost"  -> 0
            [] a = "Ghost"  /\ d = "Normal" -> 0
            [] OTHER -> 2]]

get_effectiveness(attack_type, defender_type) == TypeChart[attack_type][defender_type]

\* the draws of the random source
HitRolls    == {0, 99}              \* random.uniform(0, 100), in [0, 100)
CritRolls   == {0, 9999}            \* random.random(), in 1/10000, in [0, 1)
DamageRolls == {85, 100}            \* random.choice(weighted_values)
Rolls == [hit : HitRolls, crit : CritRolls, dmg : DamageRolls]

\* the draws calculate_damage makes for this move: none without PP, the
\* accuracy draw alone on a miss, the damage draw only when random_multiplier
\* (a draw that is not made is written as the first of its set)
DrawsOf(move, random_multiplier) ==
    {rolls \in Rolls :
        /\ move.pp <= 0 => rolls.hit = 0
        /\ (move.pp <= 0 \/ ~(rolls.hit < move.accuracy)) => (rolls.crit = 0 /\ rolls.dmg = 85)
        /\ ~random_multiplier => rolls.dmg = 85}

\* sum(weighted_values) / len(weighted_values) / 100 = 3591 / 3900
get_random_damage_multiplier(is_random, r) ==
    IF is_random THEN <<r, 100>> ELSE <<1197, 1300>>

is_crit_hit(pokemon, roll) == roll <= get_crit_chance(pokemon.base_stats)

move_hit(move, roll) == roll < move.accuracy

\* base_damage is a fraction, effectiveness is in quarters; the result is
\* (min, max) in hundredths
display_damage_range(base_damage, effectiveness) ==
    <<RoundHalfEven(base_damage[1] * 85 * effectiveness, base_damage[2] * 4),
      RoundHalfEven(base_damage[1] * 100 * effectiveness, base_damage[2] * 4)>>

Attack(damage_range, effective_damage, missed, crit, effectiveness, defender, attacker, move) ==
    [damage_range |-> damage_range, effective_damage |-> effective_damage,
     missed |-> missed, crit |-> crit, effectiveness |-> effectiveness,
     defender |-> defender, attacker |-> attacker, move |-> move]

\* the objects themselves instead of copies: an object that is not a copy
\* is marked `live`, and whoever reads it later reads the object as it is then
_clone_battle_state_Alias(attacker, defender, move) ==
    <<[live |-> TRUE] @@ attacker, [live |-> TRUE] @@ defender, [live |-> TRUE] @@ move>>

\* copy.deepcopy of the three objects: their values at the time of the call
_clone_battle_state(attacker, defender, move) == <<attacker, defender, move>>

_build_attack(effective_damage, crit, effectiveness, damage_range, missed, attacker, defender, move) ==
    Only({Attack(damage_range, effective_damage, missed, crit, effectiveness,
                 clones[2], clones[1], clones[3]) :
            clones \in {_clone_battle_state(attacker, defender, move)}})

_return_miss_attack(attacker, defender, move) ==
    _build_attack(0, FALSE, 0, <<0, 0>>, TRUE, attacker, defender, move)

\* compute_base_damage with the random factor folded into the damage range
compute_base_damage_RandomRange(attacker, defender, move, is_crit, random_multiplier, r) ==
    LET physical == move.damage_class = "physical"
        atk_stats == IF is_crit THEN attacker.base_stats ELSE attacker.current_stats
        def_stats == IF is_crit THEN defender.base_stats ELSE defender.current_stats
        attack_stat  == IF physical THEN atk_stats.attack ELSE atk_stats.attack_spe
        defense_stat == IF physical THEN def_stats.defense ELSE def_stats.defense_spe
        raw == <<(attacker.level + 5) * move.damage * attack_stat + 250 * defense_stat,
                 125 * defense_stat>>
        base_damage == IF move.element \in {attacker.type1, attacker.type2}
                       THEN <<raw[1] * 3, raw[2] * 2>> ELSE raw
        e1 == get_effectiveness(move.element, defender.type1)
        effectiveness == IF defender.type2 # None
                         THEN e1 * get_effectiveness(move.element, defender.type2)
                         ELSE e1 * 2
        \* r / 100 = (r \div 5) / 20 for the factors drawn here
        drawn == IF random_multiplier
                 THEN <<base_damage[1] * (r \div 5), base_damage[2] * 20>>
                 ELSE base_damage
    IN  [base_damage |-> base_damage, effectiveness |-> effectiveness,
         random_factor |-> get_random_damage_multiplier(random_multiplier, r),
         damage_range |-> display_damage_range(drawn, effectiveness)]

compute_base_damage(attacker, defender, move, is_crit, random_multiplier, r) ==
    LET physical == move.damage_class = "physical"
        atk_stats == IF is_crit THEN attacker.base_stats ELSE attacker.current_stats
        def_stats == IF is_crit THEN defender.base_stats ELSE defender.current_stats
        attack_stat  == IF physical THEN atk_stats.attack ELSE atk_stats.attack_spe
        defense_stat == IF physical THEN def_stats.defense ELSE def_stats.defense_spe
        \* ((2*level/5 + 2) * damage * (attack/defense)) / 50 + 2
        raw == <<(attacker.level + 5) * move.damage * attack_stat + 250 * defense_stat,
                 125 * defense_stat>>
        base_damage == IF move.element \in {attacker.type1, attacker.type2}
                       THEN <<raw[1] * 3, raw[2] * 2>> ELSE raw
        e1 == get_effectiveness(move.element, defender.type1)
        effectiveness == IF defender.type2 # None
                         THEN e1 * get_effectiveness(move.element, defender.type2)
                         ELSE e1 * 2
    IN  [base_damage |-> base_damage, effectiveness |-> effectiveness,
         random_factor |-> get_random_damage_multiplier(random_multiplier, r),
         damage_range |-> display_damage_range(base_damage, effectiveness)]

\* the test of line 260 made on the maximum of the range
compute_theoretical_attack_Max(attacker, defender, move, is_crit, random_multiplier, r) ==
    LET Theoretical(c) ==
            LET effective_damage ==
                    IF c.damage_range[2] >= 100 * defender.current_stats.health
                    THEN defender.current_stats.health ELSE -1
            IN  _build_attack(effective_damage, is_crit, c.effectiveness, c.damage_range,
                              FALSE, attacker, defender, move)
    IN  Only({Theoretical(c) :
                c \in {compute_base_damage(attacker, defender, move, is_crit,
                                           random_multiplier, r)}})

compute_theoretical_attack(attacker, defender, move, is_crit, random_multiplier, r) ==
    LET Theoretical(c) ==
            LET effective_damage ==
                    IF c.damage_range[1] >= 100 * defender.current_stats.health
                    THEN defender.current_stats.health ELSE -1
            IN  _build_attack(effective_damage, is_crit, c.effectiveness, c.damage_range,
                              FALSE, attacker, defender, move)
    IN  Only({Theoretical(c) :
                c \in {compute_base_damage(attacker, defender, move, is_crit,
                                           random_multiplier, r)}})

\* calculate_damage without the test of the remaining PP
calculate_damage_NoPPTest(attacker, defender, move, random_multiplier, rolls) ==
    IF ~move_hit(move, rolls.hit) THEN _return_miss_attack(attacker, defender, move)
    ELSE LET is_crit == is_crit_hit(attacker, rolls.crit)
             Resolved(c) ==
                 LET base_damage == IF is_crit
                                    THEN <<c.base_damage[1] * 3, c.base_damage[2] * 2>>
                                    ELSE c.base_damage
                     effective == IntOf(base_damage[1] * c.effectiveness * c.random_factor[1],
                                        base_damage[2] * 4 * c.random_factor[2])
                 IN  _build_attack(effective, is_crit, c.effectiveness, c.damage_range,
                                   FALSE, attacker, defender, move)
         IN  Only({Resolved(c) :
                     c \in {compute_base_damage(attacker, defender, move, is_crit,
                                                random_multiplier, rolls.dmg)}})

calculate_damage(attacker, defender, move, random_multiplier, rolls) ==
    IF move.pp <= 0 THEN _return_miss_attack(attacker, defender, move)
    ELSE IF ~move_hit(move, rolls.hit) THEN _return_miss_attack(attacker, defender, move)
    ELSE LET is_crit == is_crit_hit(attacker, rolls.crit)
             Resolved(c) ==
                 LET base_damage == IF is_crit
                                    THEN <<c.base_damage[1] * 3, c.base_damage[2] * 2>>
                                    ELSE c.base_damage
                     effective == IntOf(base_damage[1] * c.effectiveness * c.random_factor[1],
                                        base_damage[2] * 4 * c.random_factor[2])
                 IN  _build_attack(effective, is_crit, c.effectiveness, c.damage_range,
                                   FALSE, attacker, defender, move)
         IN  Only({Resolved(c) :
                     c \in {compute_base_damage(attacker, defender, move, is_crit,
                                                random_multiplier, rolls.dmg)}})

\* index (1-based) of the first move of the list with this name, 0 if none
RECURSIVE FirstNamed(_, _, _)
FirstNamed(moves, name, i) ==
    IF i > Len(moves) THEN 0
    ELSE IF moves[i].name = name THEN i
    ELSE FirstNamed(moves, name, i + 1)

\* the PP update without the floor at 0
use_pp_Unclamped(attacker, move) ==
    LET i == FirstNamed(attacker.moves, move.name, 1)
    IN  IF i = 0 THEN attacker
        ELSE [attacker EXCEPT !.moves[i].pp = @ - 1]

\* the loop without the test of the name and without the break
use_pp_EveryMove(attacker, move) ==
    [attacker EXCEPT !.moves = [i \in 1..Len(attacker.moves) |->
                                   [attacker.moves[i] EXCEPT !.pp = Max(0, @ - 1)]]]

\* the for / else of resolve_interaction: the attacker after the PP update
use_pp(attacker, move) ==
    LET i == FirstNamed(attacker.moves, move.name, 1)
    IN  IF i = 0 THEN attacker
        ELSE [attacker EXCEPT !.moves[i].pp = Max(0, @ - 1)]

\* the attacker and the defender after the call, and the Attack it returns
resolve_interaction(attacker, defender, move, random_multiplier, rolls) ==
    LET Outcome(damage_result, attacker2) ==
            LET defender2 == IF ~damage_result.missed
                             THEN take_damage(defender, damage_result.effective_damage)
                             ELSE defender
                i == FirstNamed(attacker.moves, move.name, 1)
                used_move == IF i = 0 THEN move ELSE attacker2.moves[i]
            IN  [attacker |-> attacker2, defender |-> defender2,
                 result |-> _build_attack(damage_result.effective_damage, damage_result.crit,
                                          damage_result.effectiveness,
                                          damage_result.damage_range,
                                          damage_result.missed, attacker2, defender2,
                                          used_move)]
    IN  Only({Outcome(damage_result, attacker2) :
                damage_result \in {calculate_damage(attacker, defender, move,
                                                    random_multiplier, rolls)},
                attacker2 \in {use_pp(attacker, move)}})

\* -------------------------------------------------------- right_move_machine.py
\* max(list, key) keeping the last of the largest elements
RECURSIVE MaxBy_Last(_, _, _, _)
MaxBy_Last(list, key, i, best) ==
    IF i > Len(list) THEN list[best]
    ELSE IF key[i] >= key[best] THEN MaxBy_Last(list, key, i + 1, i)
    ELSE MaxBy_Last(list, key, i + 1, best)

\* max(list, key): the first element whose key is the largest; key[i] is the
\* key of list[i]
RECURSIVE MaxBy(_, _, _, _)
MaxBy(list, key, i, best) ==
    IF i > Len(list) THEN list[best]
    ELSE IF key[i] > key[best] THEN MaxBy(list, key, i + 1, i)
    ELSE MaxBy(list, key, i + 1, best)

find_best_move_raises(attacker) == attacker.moves = <<>>

\* the selection with the key of line 64 on line 67 too
find_best_move_ByAccuracy(attacker, defender, verbose, rs) ==
    LET IsGuaranteed(atk) == atk.effective_damage # -1
        Best(theoretical_attacks, guaranteed_moves) ==
            LET accuracy == [k \in 1..Len(guaranteed_moves) |->
                                guaranteed_moves[k].move.accuracy]
                min_damage == [k \in 1..Len(theoretical_attacks) |->
                                  theoretical_attacks[k].damage_range[1]]
            IN  IF guaranteed_moves # <<>>
                THEN MaxBy(guaranteed_moves, accuracy, 2, 1)
                ELSE MaxBy(theoretical_attacks,
                           [k \in 1..Len(theoretical_attacks) |->
                               theoretical_attacks[k].move.accuracy], 2, 1)
        Selected(theoretical_attacks) ==
            Only({Best(theoretical_attacks, guaranteed_moves) :
                    guaranteed_moves \in {SelectSeq(theoretical_attacks, IsGuaranteed)}})
    IN  Only({Selected(theoretical_attacks) :
                theoretical_attacks \in
                  {[i \in 1..Len(attacker.moves) |->
                      compute_theoretical_attack(attacker, defender, attacker.moves[i],
                                                 FALSE, verbose, rs[i])]}})

\* the selection among the moves that have PP left, when there are any
find_best_move_WithPP(attacker, defender, verbose, rs) ==
    LET IsGuaranteed(atk) == atk.effective_damage # -1
        Best(theoretical_attacks, guaranteed_moves) ==
            LET accuracy == [k \in 1..Len(guaranteed_moves) |->
                                guaranteed_moves[k].move.accuracy]
                min_damage == [k \in 1..Len(theoretical_attacks) |->
                                  theoretical_attacks[k].damage_range[1]]
            IN  IF guaranteed_moves # <<>>
                THEN MaxBy(guaranteed_moves, accuracy, 2, 1)
                ELSE MaxBy(theoretical_attacks, min_damage, 2, 1)
        Selected(theoretical_attacks) ==
            Only({Best(theoretical_attacks, guaranteed_moves) :
                    guaranteed_moves \in {SelectSeq(theoretical_attacks, IsGuaranteed)}})
    IN  Only({Selected(theoretical_attacks) :
                theoretical_attacks \in
                  {LET HasPP(m) == m.pp > 0
                       usable == IF SelectSeq(attacker.moves, HasPP) # <<>>
                                 THEN SelectSeq(attacker.moves, HasPP)
                                 ELSE attacker.moves
                   IN  [i \in 1..Len(usable) |->
                          compute_theoretical_attack(attacker, defender, usable[i],
                                                     FALSE, verbose, rs[i])]}})

\* rs[i] is the draw made while evaluating move i (drawn only when verbose)
find_best_move(attacker, defender, verbose, rs) ==
    LET IsGuaranteed(atk) == atk.effective_damage # -1
        Best(theoretical_attacks, guaranteed_moves) ==
            LET accuracy == [k \in 1..Len(guaranteed_moves) |->
                                guaranteed_moves[k].move.accuracy]
                min_damage == [k \in 1..Len(theoretical_attacks) |->
                                  theoretical_attacks[k].damage_range[1]]
            IN  IF guaranteed_moves # <<>>
                THEN MaxBy(guaranteed_moves, accuracy, 2, 1)
                ELSE MaxBy(theoretical_attacks, min_damage, 2, 1)
        Selected(theoretical_attacks) ==
            Only({Best(theoretical_attacks, guaranteed_moves) :
                    guaranteed_moves \in {SelectSeq(theoretical_attacks, IsGuaranteed)}})
    IN  Only({Selected(theoretical_attacks) :
                theoretical_attacks \in
                  {[i \in 1..Len(attacker.moves) |->
                      compute_theoretical_attack(attacker, defender, attacker.moves[i],
                                                 FALSE, verbose, rs[i])]}})

\* ------------------------------------------------------------ the combatants
\* PokemonFactory.create_pokemon / add_move_to_pokemon on the catalogue rows
with_moves(p, moves) ==
    LET RECURSIVE Go(_, _)
        Go(q, i) == IF i > Len(moves) THEN q ELSE Go(add_move(q, moves[i]), i + 1)
    IN  Go(p, 1)

\* the priority column of the catalogue row, which Move.from_csv_row hands to
\* the constructor (moves.py 79)
CreatedPriority(name) == IF name = "Vine Whip" THEN 1 ELSE 0

Charmander ==
    with_moves(Pokemon("Charmander", Stats(10, 10, 10, 10, 10, 12), "Fire", None, 5),
               <<Move("Scratch", "Normal", 25, "physical", 100, 2, 0),
                 Move("Ember", "Fire", 50, "special", 100, 1, 0)>>)

Squirtle ==
    with_moves(Pokemon("Squirtle", Stats(11, 10, 10, 10, 10, 12), "Water", None, 5),
               <<Move("Bubble", "Water", 50, "special", 70, 1, 0),
                 Move("Water Gun", "Water", 50, "special", 100, 1, 0),
                 Move("Surf", "Water", 50, "special", 100, 1, 0)>>)

Bulbasaur ==
    with_moves(Pokemon("Bulbasaur", Stats(12, 10, 10, 10, 10, 8), "Grass", "Normal", 5),
               <<Move("Vine Whip", "Grass", 25, "physical", 100, 2, CreatedPriority("Vine Whip")),
                 Move("Tackle", "Normal", 50, "physical", 95, 1, 0)>>)

Magikarp ==
    with_moves(Pokemon("Magikarp", Stats(9, 5, 10, 5, 10, 5), "Water", None, 5),
               <<Move("Splash", "Normal", 0, "physical", 0, 2, 0)>>)

\* the rosters create_team is asked to build
Rosters == { <<Magikarp>>, <<Squirtle, Charmander>>, <<Bulbasaur, Magikarp, Squirtle>> }

\* ------------------------------------------------------------------- state
Unbound == "unbound"

Init ==
    /\ \E r1 \in Rosters, r2 \in Rosters :
          team = <<Team(r1, "team1"), Team(r2, "team2")>>
    /\ pc = "idle"
    /\ turn_count = 0
    /\ max_turns = 0
    /\ battle_log = <<>>
    /\ winner = Unbound
    /\ loser = Unbound
    /\ first_team = 0
    /\ best_move = Unbound
    /\ attack_result = Unbound
    /\ raised = ""
    /\ ret = [op |-> "none"]
    /\ calls = 0
    /\ held = <<>>

\* ----------------------------------------------- GUI/appbis.py simulate_battle
Entry(kind, turn, attacker, move, target, amount, hp_avant, hp_apres) ==
    [kind |-> kind, turn |-> turn, attacker |-> attacker, move |-> move,
     target |-> target, amount |-> amount, hp_avant |-> hp_avant, hp_apres |-> hp_apres]

TurnEntry(n)   == Entry("turn", n, "", "", "", 0, 0, 0)
BlankEntry     == Entry("blank", 0, "", "", "", 0, 0, 0)
KoEntry(name)  == Entry("ko", 0, "", "", name, 0, 0, 0)
MissEntry(attacker, move) == Entry("miss", 0, attacker, move, "", 0, 0, 0)
HitEntry(attacker, move, target, amount, hp_avant, hp_apres) ==
    Entry("hit", 0, attacker, move, target, amount, hp_avant, hp_apres)
SwitchEntry(t, old, new) == Entry("switch", 0, old, "", new, 0, 0, 0)
EnterEntry(name, hp)     == Entry("enter", 0, "", "", name, 0, hp, 0)

\* the draws are not made when the selector's calculator is not verbose
NoDraws(p) == [i \in 1..Len(p.moves) |-> 100]

SetActive(t, p) == [t EXCEPT !.pokemons[Norm(t.pokemons, t.active_index) + 1] = p]

\* the teams are built by create_team right before the call (appbis.py 434-459)
simulate_battle_enter ==
    /\ pc = "idle"
    /\ calls = 0
    /\ \E n \in 0..MaxTurns : max_turns' = n
    /\ battle_log' = <<>>
    /\ turn_count' = 0
    /\ pc' = "while"
    /\ UNCHANGED <<team, winner, loser, first_team, best_move, attack_result, raised, ret, calls, held>>

LoopCondition ==
    ~is_defeated(team[1]) /\ ~is_defeated(team[2]) /\ turn_count < max_turns

\* lines 244-307: the loop test, the turn marker and the order of attack
turn_start ==
    /\ pc = "while"
    /\ LoopCondition
    /\ turn_count' = turn_count + 1
    /\ battle_log' = Append(battle_log, TurnEntry(turn_count + 1))
    /\ first_team' = IF active_pokemon(team[1]).current_stats.speed
                          >= active_pokemon(team[2]).current_stats.speed
                     THEN 1 ELSE 2
    /\ pc' = "first"
    /\ UNCHANGED <<team, max_turns, winner, loser, best_move, attack_result, raised, ret, calls, held>>

\* the attacker's block without the KO entry
HalfExchange_NoKo(a, d, rolls) ==
    LET Block(attacker, defender, best, r) ==
            LET hp_avant == r.defender.current_stats.health
                degats_reels == Min(r.result.effective_damage, hp_avant)
                defender3 == IF ~r.result.missed
                             THEN take_damage(r.defender, r.result.effective_damage)
                             ELSE r.defender
                hp_apres == defender3.current_stats.health
                entries == IF ~r.result.missed
                           THEN <<HitEntry(attacker.name, r.result.move.name, defender.name,
                                           degats_reels, hp_avant, hp_apres)>>
                           ELSE <<MissEntry(attacker.name, r.result.move.name)>>
            IN  [team |-> [team EXCEPT ![a] = SetActive(team[a], r.attacker),
                                       ![d] = SetActive(team[d], defender3)],
                 best_move |-> best, attack_result |-> r.result, entries |-> entries]
        Attacking(attacker, defender, best) ==
            Only({Block(attacker, defender, best, r) :
                    r \in {resolve_interaction(attacker, defender, best.move, TRUE, rolls)}})
        Selecting(attacker, defender) ==
            Only({Attacking(attacker, defender, best) :
                    best \in {find_best_move(attacker, defender, FALSE, NoDraws(attacker))}})
    IN  Only({Selecting(attacker, defender) :
                attacker \in {active_pokemon(team[a])},
                defender \in {active_pokemon(team[d])}})

\* one attacker's block (lines 310-346 and 349-385): the teams, the log and
\* the locals after team a's active member attacks team d's
HalfExchange(a, d, rolls) ==
    LET Block(attacker, defender, best, r) ==
            LET hp_avant == r.defender.current_stats.health
                degats_reels == Min(r.result.effective_damage, hp_avant)
                defender3 == IF ~r.result.missed
                             THEN take_damage(r.defender, r.result.effective_damage)
                             ELSE r.defender
                hp_apres == defender3.current_stats.health
                entries == IF ~r.result.missed
                           THEN <<HitEntry(attacker.name, r.result.move.name, defender.name,
                                           degats_reels, hp_avant, hp_apres)>>
                                \o (IF is_fainted(defender3)
                                    THEN <<KoEntry(defender.name)>> ELSE <<>>)
                           ELSE <<MissEntry(attacker.name, r.result.move.name)>>
            IN  [team |-> [team EXCEPT ![a] = SetActive(team[a], r.attacker),
                                       ![d] = SetActive(team[d], defender3)],
                 best_move |-> best, attack_result |-> r.result, entries |-> entries]
        Attacking(attacker, defender, best) ==
            Only({Block(attacker, defender, best, r) :
                    r \in {resolve_interaction(attacker, defender, best.move, TRUE, rolls)}})
        Selecting(attacker, defender) ==
            Only({Attacking(attacker, defender, best) :
                    best \in {find_best_move(attacker, defender, FALSE, NoDraws(attacker))}})
    IN  Only({Selecting(attacker, defender) :
                attacker \in {active_pokemon(team[a])},
                defender \in {active_pokemon(team[d])}})

first_attack ==
    /\ pc = "first"
    /\ LET a == first_team
           d == 3 - first_team
       IN  IF is_fainted(active_pokemon(team[a]))
           THEN /\ pc' = "second"
                /\ UNCHANGED <<team, battle_log, best_move, attack_result, raised>>
           ELSE IF find_best_move_raises(active_pokemon(team[a]))
           THEN /\ pc' = "raised"
                /\ raised' = "ValueError"
                /\ UNCHANGED <<team, battle_log, best_move, attack_result>>
           ELSE \E rolls \in Rolls :
                   \E h \in {HalfExchange(a, d, rolls)} :
                       /\ team' = h.team
                       /\ best_move' = h.best_move
                       /\ attack_result' = h.attack_result
                       /\ battle_log' = battle_log \o h.entries
                       /\ pc' = "second"
                       /\ UNCHANGED raised
    /\ UNCHANGED <<turn_count, max_turns, winner, loser, first_team, ret, calls, held>>

\* the second attacker's block without the test of line 349
second_attack_Unguarded ==
    /\ pc = "second"
    /\ LET a == 3 - first_team
           d == first_team
       IN  IF find_best_move_raises(active_pokemon(team[a]))
           THEN /\ pc' = "raised"
                /\ raised' = "ValueError"
                /\ UNCHANGED <<team, battle_log, best_move, attack_result>>
           ELSE \E rolls \in Rolls :
                   \E h \in {HalfExchange(a, d, rolls)} :
                       /\ team' = h.team
                       /\ best_move' = h.best_move
                       /\ attack_result' = h.attack_result
                       /\ battle_log' = battle_log \o h.entries
                       /\ pc' = "switch"
                       /\ UNCHANGED raised
    /\ UNCHANGED <<turn_count, max_turns, winner, loser, first_team, ret, calls, held>>

second_attack ==
    /\ pc = "second"
    /\ LET a == 3 - first_team
           d == first_team
       IN  IF ~(~is_fainted(active_pokemon(team[a])) /\ ~is_fainted(active_pokemon(team[d])))
           THEN /\ pc' = "switch"
                /\ UNCHANGED <<team, battle_log, best_move, attack_result, raised>>
           ELSE IF find_best_move_raises(active_pokemon(team[a]))
           THEN /\ pc' = "raised"
                /\ raised' = "ValueError"
                /\ UNCHANGED <<team, battle_log, best_move, attack_result>>
           ELSE \E rolls \in Rolls :
                   \E h \in {HalfExchange(a, d, rolls)} :
                       /\ team' = h.team
                       /\ best_move' = h.best_move
                       /\ attack_result' = h.attack_result
                       /\ battle_log' = battle_log \o h.entries
                       /\ pc' = "switch"
                       /\ UNCHANGED raised
    /\ UNCHANGED <<turn_count, max_turns, winner, loser, first_team, ret, calls, held>>

\* the end of the turn without the replacement
AutoSwitch_Skip(t) == [team |-> t, entries |-> <<>>]

\* the replacement taken from the end of the list of candidates
AutoSwitch_Last(t) ==
    LET available_switches == get_available_switches(t)
        t2 == switch_to(t, available_switches[Len(available_switches)])
    IN  IF is_fainted(active_pokemon(t)) /\ available_switches # <<>>
        THEN [team |-> t2,
              entries |-> <<BlankEntry,
                            SwitchEntry(t.name, active_pokemon(t).name, active_pokemon(t2).name),
                            EnterEntry(active_pokemon(t2).name,
                                       active_pokemon(t2).current_stats.health)>>]
        ELSE [team |-> t, entries |-> <<>>]

\* lines 388-395 / 397-404 for one team: the team and the entries logged
AutoSwitch(t) ==
    LET available_switches == get_available_switches(t)
        t2 == switch_to(t, available_switches[1])
    IN  IF is_fainted(active_pokemon(t)) /\ available_switches # <<>>
        THEN [team |-> t2,
              entries |-> <<BlankEntry,
                            SwitchEntry(t.name, active_pokemon(t).name, active_pokemon(t2).name),
                            EnterEntry(active_pokemon(t2).name,
                                       active_pokemon(t2).current_stats.health)>>]
        ELSE [team |-> t, entries |-> <<>>]

\* lines 387-413: the replacement of fainted active members, end of the turn
auto_switch ==
    /\ pc = "switch"
    /\ LET s1 == AutoSwitch(team[1])
           s2 == AutoSwitch(team[2])
       IN  /\ team' = <<s1.team, s2.team>>
           /\ battle_log' = battle_log \o s1.entries \o s2.entries \o <<BlankEntry>>
    /\ pc' = "while"
    /\ UNCHANGED <<turn_count, max_turns, winner, loser, first_team, best_move,
                   attack_result, raised, ret, calls, held>>

\* the final test naming the defeated team as the winner
determine_winner_Swapped ==
    /\ pc = "while"
    /\ ~LoopCondition
    /\ IF is_defeated(team[1])
       THEN winner' = team[1].name /\ loser' = team[2].name
       ELSE IF is_defeated(team[2])
       THEN winner' = team[2].name /\ loser' = team[1].name
       ELSE winner' = None /\ loser' = loser
    /\ IF loser' = Unbound
       THEN pc' = "raised" /\ raised' = "UnboundLocalError"
       ELSE pc' = "returned" /\ raised' = raised
    /\ UNCHANGED <<team, turn_count, max_turns, battle_log, first_team, best_move,
                   attack_result, ret, calls, held>>

\* lines 415-425: the winner; on a draw `loser` was never assigned and the
\* return statement raises UnboundLocalError
determine_winner ==
    /\ pc = "while"
    /\ ~LoopCondition
    /\ IF is_defeated(team[1])
       THEN winner' = team[2].name /\ loser' = team[1].name
       ELSE IF is_defeated(team[2])
       THEN winner' = team[1].name /\ loser' = team[2].name
       ELSE winner' = None /\ loser' = loser
    /\ IF loser' = Unbound
       THEN pc' = "raised" /\ raised' = "UnboundLocalError"
       ELSE pc' = "returned" /\ raised' = raised
    /\ UNCHANGED <<team, turn_count, max_turns, battle_log, first_team, best_move,
                   attack_result, ret, calls, held>>

NextBattle ==
    \/ simulate_battle_enter
    \/ turn_start
    \/ first_attack
    \/ second_attack
    \/ auto_switch
    \/ determine_winner

SpecBattle == Init /\ [][NextBattle]_vars

\* ------------------------------------------------ calls made by library users
\* (main.py, game.py, GUI/app.py, battle_simulator.py): one action per call,
\* ret records the call and what it returned or raised.
Refs == {ref \in (1..2) \X (0..2) : ref[2] < Len(team[ref[1]].pokemons)}
Member(ref) == At(team[ref[1]].pokemons, ref[2])
SetMember(ref, p) == [team EXCEPT ![ref[1]].pokemons[ref[2] + 1] = p]

DamageAmounts == {3, 10000}
HealAmounts   == {2, 10000}
SwitchIndexes == (0 - 1)..3

Idle == pc = "idle" /\ calls < MaxCalls

BattleLocals == <<pc, turn_count, max_turns, battle_log, winner, loser,
                  first_team, best_move, attack_result, raised>>

\* held is the Attack record the caller keeps, if any (a sequence of at most
\* one), with the objects it was built from:
\* team a's active member, the other team's, and the attacker's i-th move
HeldRecord(result, a, i) ==
    [result |-> result, attacker |-> <<a, team[a].active_index>>,
     defender |-> <<3 - a, team[3 - a].active_index>>, move |-> i]

TakeDamage ==
    /\ Idle
    /\ \E ref \in Refs, damage \in DamageAmounts :
          /\ team' = SetMember(ref, take_damage(Member(ref), damage))
          /\ ret' = [op |-> "take_damage", who |-> ref, arg |-> damage]
    /\ calls' = calls + 1
    /\ UNCHANGED held
    /\ UNCHANGED BattleLocals

Heal ==
    /\ Idle
    /\ \E ref \in Refs, amount \in HealAmounts :
          /\ team' = SetMember(ref, heal(Member(ref), amount))
          /\ ret' = [op |-> "heal", who |-> ref, arg |-> amount]
    /\ calls' = calls + 1
    /\ UNCHANGED held
    /\ UNCHANGED BattleLocals

\* team a's active member uses its i-th move on the other team's active member;
\* a caller that follows its records (holding) keeps the first one it got and
\* binds a later result to another name (main.py 51-59: predicted_attack stays
\* bound across resolve_interaction)
ResolveInteraction(holding) ==
    /\ Idle
    /\ \E a \in 1..2, random_multiplier \in BOOLEAN :
         \E i \in 1..Len(active_pokemon(team[a]).moves) :
            \E d \in {3 - a}, attacker \in {active_pokemon(team[a])} :
             \E rolls \in DrawsOf(attacker.moves[i], random_multiplier) :
              \E r \in {resolve_interaction(attacker, active_pokemon(team[d]),
                                            attacker.moves[i], random_multiplier, rolls)} :
                /\ team' = [team EXCEPT ![a] = SetActive(team[a], r.attacker),
                                        ![d] = SetActive(team[d], r.defender)]
                /\ ret' = [op |-> "resolve_interaction", who |-> a, arg |-> i,
                           result |-> r.result]
                /\ held' = IF holding /\ held = <<>>
                           THEN <<HeldRecord(r.result, a, i)>> ELSE held
    /\ calls' = calls + 1
    /\ UNCHANGED BattleLocals

FindBestMove ==
    /\ Idle
    /\ \E a \in 1..2, verbose \in BOOLEAN :
         LET attacker == active_pokemon(team[a])
         IN  IF find_best_move_raises(attacker)
             THEN ret' = [op |-> "find_best_move", who |-> a, raised |-> "ValueError"]
             ELSE \E rs \in IF verbose THEN [1..Len(attacker.moves) -> DamageRolls]
                                       ELSE {NoDraws(attacker)} :
                     ret' = [op |-> "find_best_move", who |-> a, raised |-> "",
                             result |-> find_best_move(attacker, active_pokemon(team[3 - a]),
                                                       verbose, rs)]
    /\ calls' = calls + 1
    /\ UNCHANGED <<team, held>>
    /\ UNCHANGED BattleLocals

SwitchTo ==
    /\ Idle
    /\ \E t \in 1..2, index \in SwitchIndexes :
          /\ team' = [team EXCEPT ![t] = switch_to(team[t], index)]
          /\ ret' = [op |-> "switch_to", who |-> t, arg |-> index,
                     raised |-> switch_to_raises(team[t], index)]
    /\ calls' = calls + 1
    /\ UNCHANGED held
    /\ UNCHANGED BattleLocals

\* compute_theoretical_attack for team a's active member and its i-th move
ComputeTheoreticalAttack ==
    /\ Idle
    /\ \E a \in 1..2, is_crit \in BOOLEAN :
         \E attacker \in {active_pokemon(team[a])}, defender \in {active_pokemon(team[3 - a])} :
           \E i \in 1..Len(attacker.moves) :
             \E result \in {compute_theoretical_attack(attacker, defender, attacker.moves[i],
                                                        is_crit, FALSE, 100)} :
                /\ ret' = [op |-> "compute_theoretical_attack", who |-> a, arg |-> i,
                           result |-> result]
                /\ held' = <<HeldRecord(result, a, i)>>
    /\ calls' = calls + 1
    /\ UNCHANGED team
    /\ UNCHANGED BattleLocals

\* calculate_damage for team a's active member and its i-th move
CalculateDamage ==
    /\ Idle
    /\ \E a \in 1..2 :
         \E attacker \in {active_pokemon(team[a])}, defender \in {active_pokemon(team[3 - a])} :
           \E i \in 1..Len(attacker.moves) :
            \E rolls \in DrawsOf(attacker.moves[i], TRUE) :
             \E result \in {calculate_damage(attacker, defender, attacker.moves[i],
                                              TRUE, rolls)} :
                /\ ret' = [op |-> "calculate_damage", who |-> a, arg |-> i,
                           result |-> result]
                /\ held' = <<HeldRecord(result, a, i)>>
    /\ calls' = calls + 1
    /\ UNCHANGED team
    /\ UNCHANGED BattleLocals

\* current_stats.increase_crit_chance() / decrease_crit_chance() of team t's
\* active member: counted against MaxCalls like any other call, or, not
\* counted, made before the first counted call (the stage is bounded by the
\* method itself).
IncreaseCritChance(counted) ==
    /\ pc = "idle" /\ (IF counted THEN calls < MaxCalls ELSE calls = 0)
    /\ \E t \in 1..2 :
          /\ team' = [team EXCEPT ![t] = SetActive(team[t],
                         [active_pokemon(team[t]) EXCEPT
                            !.current_stats = increase_crit_chance(@)])]
          /\ ret' = [op |-> "increase_crit_chance", who |-> t]
    /\ calls' = IF counted THEN calls + 1 ELSE calls
    /\ UNCHANGED held
    /\ UNCHANGED BattleLocals

DecreaseCritChance(counted) ==
    /\ pc = "idle" /\ (IF counted THEN calls < MaxCalls ELSE calls = 0)
    /\ \E t \in 1..2 :
          /\ team' = [team EXCEPT ![t] = SetActive(team[t],
                         [active_pokemon(team[t]) EXCEPT
                            !.current_stats = decrease_crit_chance(@)])]
          /\ ret' = [op |-> "decrease_crit_chance", who |-> t]
    /\ calls' = IF counted THEN calls + 1 ELSE calls
    /\ UNCHANGED held
    /\ UNCHANGED BattleLocals

\* the Stats object whose accuracy and evasion stages the caller moves: the
\* battle stats of this team's active member
StageTargets == {1}

\* the battle stats of team t's active member after a stage operation
WithStats(t, stats) ==
    [team EXCEPT ![t] = SetActive(team[t],
                           [active_pokemon(team[t]) EXCEPT !.current_stats = stats])]

IncreaseAccuracy ==
    /\ pc = "idle" /\ calls = 0
    /\ \E t \in StageTargets :
          /\ team' = WithStats(t, increase_accuracy(active_pokemon(team[t]).current_stats))
          /\ ret' = [op |-> "increase_accuracy", who |-> t]
    /\ UNCHANGED <<calls, held>>
    /\ UNCHANGED BattleLocals

DecreaseAccuracy ==
    /\ pc = "idle" /\ calls = 0
    /\ \E t \in StageTargets :
          /\ team' = WithStats(t, decrease_accuracy(active_pokemon(team[t]).current_stats))
          /\ ret' = [op |-> "decrease_accuracy", who |-> t]
    /\ UNCHANGED <<calls, held>>
    /\ UNCHANGED BattleLocals

IncreaseEvasion ==
    /\ pc = "idle" /\ calls = 0
    /\ \E t \in StageTargets :
          /\ team' = WithStats(t, increase_evasion(active_pokemon(team[t]).current_stats))
          /\ ret' = [op |-> "increase_evasion", who |-> t]
    /\ UNCHANGED <<calls, held>>
    /\ UNCHANGED BattleLocals

DecreaseEvasion ==
    /\ pc = "idle" /\ calls = 0
    /\ \E t \in StageTargets :
          /\ team' = WithStats(t, decrease_evasion(active_pokemon(team[t]).current_stats))
          /\ ret' = [op |-> "decrease_evasion", who |-> t]
    /\ UNCHANGED <<calls, held>>
    /\ UNCHANGED BattleLocals

\* ------------------------------------------------------- battle_simulator.py
\* random.random() of lines 26-27
TieRolls == {0, 1}

\* line 26 / 27
score(best, pokemon, r) == <<best.priority, pokemon.current_stats.speed, r>>

\* score1 >= score2 on tuples (line 29)
ScoreGE_SpeedOnly(score1, score2) == score1[2] >= score2[2]

ScoreGE(score1, score2) ==
    \/ score1[1] > score2[1]
    \/ score1[1] = score2[1] /\ score1[2] > score2[2]
    \/ score1[1] = score2[1] /\ score1[2] = score2[2] /\ score1[3] >= score2[3]

\* line 38 without the test
second_half_turn_Always(defn) == TRUE

\* line 38: the defender of the first half-turn is still standing
second_half_turn(defn) == defn.current_stats.health > 0

\* line 41 with the two moves exchanged
mv2_Same(mv_is_best1, best1, best2) == IF mv_is_best1 THEN best1 ELSE best2

\* line 41: mv2 = best2 if mv is best1 else best1
mv2(mv_is_best1, best1, best2) == IF mv_is_best1 THEN best2 ELSE best1

\* a half-turn (attacker, defender, move, result), the combatants named by
\* their team; None in its place is the empty tuple
HalfTurn(atk, defn, mv, result) == <<atk, defn, mv, result>>
NoHalfTurn == <<>>

\* full_turn_interaction(pokemon1, pokemon2) with team a's active member as
\* pokemon1 and the other team's as pokemon2. The selector and the calculator
\* are the ones built over the type chart, not verbose (lines 11 and 20 build
\* them without a csv_path; they are taken as built, as simulate_battle's are).
FullTurnInteraction ==
    /\ Idle
    /\ \E a \in 1..2, random_multiplier \in BOOLEAN, r1 \in TieRolls, r2 \in TieRolls :
        \E pokemon1 \in {active_pokemon(team[a])}, pokemon2 \in {active_pokemon(team[3 - a])} :
         IF find_best_move_raises(pokemon1) \/ find_best_move_raises(pokemon2)
         THEN /\ ret' = [op |-> "full_turn_interaction", who |-> a, raised |-> "ValueError"]
              /\ UNCHANGED team
         ELSE
          \E best1 \in {find_best_move(pokemon1, pokemon2, FALSE, NoDraws(pokemon1)).move},
             best2 \in {find_best_move(pokemon2, pokemon1, FALSE, NoDraws(pokemon2)).move} :
           \E one_first \in {ScoreGE(score(best1, pokemon1, r1), score(best2, pokemon2, r2))} :
            \E f \in {IF one_first THEN a ELSE 3 - a},
               atk \in {IF one_first THEN pokemon1 ELSE pokemon2},
               defn \in {IF one_first THEN pokemon2 ELSE pokemon1},
               mv \in {IF one_first THEN best1 ELSE best2} :
             \E rolls \in DrawsOf(mv, random_multiplier) :
              \E h \in {resolve_interaction(atk, defn, mv, random_multiplier, rolls)} :
               IF second_half_turn(h.defender)
               THEN \E m2 \in {mv2(one_first, best1, best2)} :
                     \E rolls2 \in DrawsOf(m2, random_multiplier) :
                      \E h2 \in {resolve_interaction(h.defender, h.attacker, m2,
                                                     random_multiplier, rolls2)} :
                        /\ team' = [team EXCEPT ![f] = SetActive(team[f], h2.defender),
                                                ![3 - f] = SetActive(team[3 - f], h2.attacker)]
                        /\ ret' = [op |-> "full_turn_interaction", who |-> a, raised |-> "",
                                   first |-> HalfTurn(f, 3 - f, mv, h.result),
                                   second |-> HalfTurn(3 - f, f, m2, h2.result)]
               ELSE     /\ team' = [team EXCEPT ![f] = SetActive(team[f], h.attacker),
                                                ![3 - f] = SetActive(team[3 - f], h.defender)]
                        /\ ret' = [op |-> "full_turn_interaction", who |-> a, raised |-> "",
                                   first |-> HalfTurn(f, 3 - f, mv, h.result),
                                   second |-> NoHalfTurn]
    /\ calls' = calls + 1
    /\ UNCHANGED held
    /\ UNCHANGED BattleLocals

\* one exchange, after calls that changed the combatants' health, or a battle
NextTurn ==
    \/ FullTurnInteraction
    \/ TakeDamage
    \/ NextBattle

SpecTurn == Init /\ [][NextTurn]_vars

\* the moves a caller adds to a member after its creation
NewMoves == { Move("Growl", "Normal", 0, "physical", 100, 2, 0),
              Move("Tackle", "Normal", 50, "physical", 95, 1, 0) }

AddMove ==
    /\ Idle
    /\ \E ref \in Refs, move \in NewMoves :
          /\ team' = SetMember(ref, add_move(Member(ref), move))
          /\ ret' = [op |-> "add_move", who |-> ref, arg |-> move.name,
                     raised |-> IF add_move_raises(Member(ref)) THEN "Exception" ELSE ""]
    /\ calls' = calls + 1
    /\ UNCHANGED held
    /\ UNCHANGED BattleLocals

SpecMoves == Init /\ [][AddMove]_vars

\* the calls that produce an Attack record and the ones that change the
\* objects it was built from
NextRecords ==
    \/ ComputeTheoreticalAttack
    \/ CalculateDamage
    \/ ResolveInteraction(TRUE)
    \/ TakeDamage
    \/ Heal
    \/ IncreaseCritChance(TRUE)
    \/ DecreaseCritChance(TRUE)

\* the two-member roster against the three-member one
InitRecords == Init /\ Len(team[1].pokemons) = 2 /\ Len(team[2].pokemons) = 3

SpecRecords == InitRecords /\ [][NextRecords]_vars

\* attacks after the crit stage of the battle stats was moved
NextStages ==
    \/ IncreaseCritChance(FALSE)
    \/ DecreaseCritChance(FALSE)
    \/ ResolveInteraction(FALSE)

SpecStages == Init /\ [][NextStages]_vars

\* any sequence of stage operations
NextStats ==
    \/ IncreaseCritChance(FALSE)
    \/ DecreaseCritChance(FALSE)
    \/ IncreaseAccuracy
    \/ DecreaseAccuracy
    \/ IncreaseEvasion
    \/ DecreaseEvasion

SpecStats == InitRecords /\ [][NextStats]_vars

\* switches by the caller and by the battle, after stage adjustments and attacks
NextSwitch ==
    \/ IncreaseCritChance(FALSE)
    \/ ResolveInteraction(FALSE)
    \/ SwitchTo
    \/ NextBattle

SpecSwitch == InitRecords /\ [][NextSwitch]_vars

\* selections after attacks, damage and switches of the two-member roster
\* and the three-member one
NextSelect ==
    \/ FindBestMove
    \/ ResolveInteraction(FALSE)
    \/ TakeDamage
    \/ SwitchTo

SpecSelect == InitRecords /\ [][NextSelect]_vars

NextCalls ==
    \/ TakeDamage
    \/ Heal
    \/ ResolveInteraction(FALSE)
    \/ FindBestMove
    \/ SwitchTo

Next == NextCalls \/ NextBattle

Spec == Init /\ [][Next]_vars

\* ============================================================== properties
Teams == 1..2
Members(t) == 1..Len(team[t].pokemons)
Finished == pc \in {"returned", "raised"}
TeamNamed(name) == CHOOSE t \in Teams : team[t].name = name

\* ---------------------------------------------------------------------- C1
\* C1: every combatant's current health stays between 0 and its base health,
\* whatever take_damage, heal, resolve_interaction calls and battle turns ran.
C1_HealthInRange ==
    \A t \in Teams : \A i \in Members(t) :
        /\ 0 <= team[t].pokemons[i].current_stats.health
        /\ team[t].pokemons[i].current_stats.health <= team[t].pokemons[i].base_stats.health

\* a member damaged by 3 and then healed by 2 is one below its maximum
C1_Witness ==
    /\ ret.op = "heal" /\ ret.arg = 2
    /\ Member(ret.who).current_stats.health = Member(ret.who).base_stats.health - 1

\* ---------------------------------------------------------------------- C2
AttackerOfStep == IF pc = "first" THEN first_team ELSE 3 - first_team
HalfExchangeStep == pc \in {"first", "second"} /\ battle_log' # battle_log

\* C2: in a half-exchange that is not missed the defender ends with
\* max(0, health before - effective_damage): the damage is applied once.
C2_DamageAppliedOnce ==
    [][(HalfExchangeStep /\ ~attack_result'.missed) =>
          active_pokemon(team'[3 - AttackerOfStep]).current_stats.health
            = Max(0, active_pokemon(team[3 - AttackerOfStep]).current_stats.health
                     - attack_result'.effective_damage)]_vars

\* ---------------------------------------------------------------------- C3
C3_Safety ==
    /\ turn_count <= max_turns
    /\ (Finished /\ winner \notin {Unbound, None}) =>
          /\ loser \notin {Unbound, None, winner}
          /\ is_defeated(team[TeamNamed(loser)])
          /\ ~is_defeated(team[TeamNamed(winner)])
    /\ (Finished /\ winner = None) =>
          /\ turn_count = max_turns
          /\ ~is_defeated(team[1]) /\ ~is_defeated(team[2])

\* steps simulate_battle can still take: four per remaining turn and the exit
Rank(position, turns) ==
    4 * (max_turns - turns)
      + (CASE position = "first" -> 4 [] position = "second" -> 3
           [] position = "switch" -> 2 [] position = "while" -> 1 [] OTHER -> 0)

\* C3: simulate_battle terminates within max_turns turns (every step lowers
\* the number of steps left, which is never negative); a winner is named
\* only when the other team is defeated and the winner is not, a draw only
\* when the turn count equals max_turns and no team is defeated.
C3_Terminates ==
    [][/\ C3_Safety'
       /\ pc # "idle" => /\ Rank(pc', turn_count') < Rank(pc, turn_count)
                         /\ Rank(pc', turn_count') >= 0]_vars

C3_Witness ==
    /\ pc = "returned" /\ winner = "team2" /\ loser = "team1"
    /\ turn_count = 2 /\ max_turns = 3

\* ---------------------------------------------------------------------- C4
NoMoveCanHit ==
    \A t \in Teams : \A i \in Members(t) :
        \A m \in 1..Len(team[t].pokemons[i].moves) :
            team[t].pokemons[i].moves[m].accuracy = 0

\* C4: when no attack can hit, simulate_battle returns normally with a draw,
\* a turn count equal to the cap and every health unchanged.
C4_DrawReturned ==
    (Finished /\ NoMoveCanHit) =>
        /\ pc = "returned"
        /\ winner = None
        /\ turn_count = max_turns
        /\ \A t \in Teams : \A i \in Members(t) :
              team[t].pokemons[i].current_stats.health
                = team[t].pokemons[i].base_stats.health

\* ---------------------------------------------------------------------- C5
LastTurnAt(log) ==
    CHOOSE i \in 1..Len(log) :
        log[i].kind = "turn" /\ \A j \in (i + 1)..Len(log) : log[j].kind # "turn"

KoLoggedThisTurn(name) ==
    /\ turn_count >= 1
    /\ battle_log[LastTurnAt(battle_log)].turn = turn_count
    /\ \E j \in (LastTurnAt(battle_log) + 1)..Len(battle_log) : battle_log[j] = KoEntry(name)

\* C5: once the last living member of a team is brought to 0 health the log
\* holds its KO event in the current turn, no further turn is started, and
\* the function returns that turn count with the other team as winner.
C5_LastFaintEndsBattle ==
    \A t \in Teams :
        (pc # "idle" /\ is_defeated(team[t])) =>
            /\ KoLoggedThisTurn(active_pokemon(team[t]).name)
            /\ Finished => (pc = "returned" /\ winner = team[3 - t].name
                                            /\ loser = team[t].name)

\* a one-member team beaten in the first turn
C5_Witness ==
    /\ pc = "returned" /\ turn_count = 1 /\ winner = "team1"
    /\ Len(team[2].pokemons) = 1 /\ is_defeated(team[2])

\* ---------------------------------------------------------------------- C6
MinDamage(attacker, defender, i) ==
    compute_base_damage(attacker, defender, attacker.moves[i], FALSE, FALSE, 100).damage_range[1]

\* the moves whose damage-range minimum reaches the defender's health
DeterminedMoves(attacker, defender) ==
    {i \in 1..Len(attacker.moves) :
        MinDamage(attacker, defender, i) >= 100 * defender.current_stats.health}

MostAccurateFirst(attacker, S) ==
    CHOOSE i \in S : \A j \in S :
        \/ attacker.moves[j].accuracy < attacker.moves[i].accuracy
        \/ attacker.moves[j].accuracy = attacker.moves[i].accuracy /\ i <= j

CallAttacker == active_pokemon(team[ret.who])
CallDefender == active_pokemon(team[3 - ret.who])

\* C6: when some move is Determined, find_best_move returns the Determined
\* move of highest accuracy, the earliest of the list among equals.
C6_DeterminedChoice ==
    (ret.op = "find_best_move" /\ ret.raised = ""
       /\ DeterminedMoves(CallAttacker, CallDefender) # {}) =>
        /\ ret.result.effective_damage # -1
        /\ ret.result.move
             = CallAttacker.moves[MostAccurateFirst(CallAttacker,
                                     DeterminedMoves(CallAttacker, CallDefender))]

\* three Determined moves; the most accurate is neither the first nor the last
C6_Witness ==
    /\ ret.op = "find_best_move" /\ ret.raised = ""
    /\ Cardinality(DeterminedMoves(CallAttacker, CallDefender)) = 3
    /\ MostAccurateFirst(CallAttacker, DeterminedMoves(CallAttacker, CallDefender)) = 2

\* ---------------------------------------------------------------------- C7
FindBestMoveStep == ret'.op = "find_best_move" /\ calls' = calls + 1

\* C7: find_best_move changes no health, PP, stage or active index, and it
\* returns the same result in the same state whatever is drawn meanwhile.
C7_SelectionIsPure ==
    [][FindBestMoveStep =>
         /\ team' = team
         /\ ret'.raised = "" =>
              \A attacker \in {active_pokemon(team[ret'.who])},
                 defender \in {active_pokemon(team[3 - ret'.who])} :
                \A verbose \in BOOLEAN :
                  \A rs \in [1..Len(attacker.moves) -> DamageRolls] :
                     find_best_move(attacker, defender, verbose, rs) = ret'.result]_vars

C7_Witness ==
    /\ ret.op = "find_best_move" /\ ret.raised = "" /\ calls = 2
    /\ Len(CallAttacker.moves) >= 2
    /\ CallDefender.current_stats.health < CallDefender.base_stats.health

\* ---------------------------------------------------------------------- C8
\* C8: no step raises a move's PP or makes it negative, and no health goes
\* below 0, however often resolve_interaction is repeated.
C8_PPAndHealthFloors ==
    [][\A t \in Teams : \A i \in Members(t) :
          /\ team'[t].pokemons[i].current_stats.health >= 0
          /\ \A m \in 1..Len(team[t].pokemons[i].moves) :
                /\ team'[t].pokemons[i].moves[m].pp >= 0
                /\ team'[t].pokemons[i].moves[m].pp <= team[t].pokemons[i].moves[m].pp]_vars

\* a second use of a move whose single PP is already spent
C8_Witness ==
    /\ ret.op = "resolve_interaction" /\ calls = 2
    /\ CallAttacker.moves[ret.arg].pp = 0
    /\ ret.result.missed
    /\ CallDefender.current_stats.health < CallDefender.base_stats.health

\* ---------------------------------------------------------------------- C9
ResolveStep == ret'.op = "resolve_interaction" /\ calls' = calls + 1

\* C9: a move with 0 PP always misses with 0 damage, whatever its accuracy,
\* and the call changes no health and no PP.
C9_NoPPMisses ==
    [][/\ (ResolveStep /\ active_pokemon(team[ret'.who]).moves[ret'.arg].pp = 0) =>
             /\ ret'.result.missed
             /\ ret'.result.effective_damage = 0
             /\ team' = team
       /\ (HalfExchangeStep /\ best_move'.move.pp = 0) =>
             /\ attack_result'.missed
             /\ attack_result'.effective_damage = 0
             /\ team' = team]_vars

\* a move that cannot miss for lack of accuracy, used with 0 PP
C9_Witness ==
    /\ ret.op = "resolve_interaction"
    /\ ret.result.move.pp = 0 /\ ret.result.move.accuracy = 100
    /\ ret.result.missed /\ ret.result.effective_damage = 0

\* --------------------------------------------------------------------- C10
SwitchStep == ret'.op = "switch_to" /\ calls' = calls + 1

SwitchAllowed(t, index) ==
    /\ index # t.active_index
    /\ ValidIndex(t.pokemons, index)
    /\ ~is_fainted(At(t.pokemons, index))

\* C10: switch_to succeeds exactly for an index that is not the active one
\* and whose member is not fainted, and then makes it active; otherwise it
\* raises and leaves active_index as it was.
C10_SwitchRule ==
    [][SwitchStep =>
         LET t == ret'.who
             index == ret'.arg
         IN  /\ SwitchAllowed(team[t], index) <=> ret'.raised = ""
             /\ SwitchAllowed(team[t], index) => team'[t].active_index = index
             /\ ~SwitchAllowed(team[t], index) =>
                    /\ ret'.raised \in {"ValueError", "IndexError"}
                    /\ team'[t].active_index = team[t].active_index
             /\ team'[3 - t] = team[3 - t]
             /\ team'[t].pokemons = team[t].pokemons]_vars

\* a refused switch to a fainted benched member
C10_Witness ==
    /\ ret.op = "switch_to" /\ ret.raised = "ValueError"
    /\ ret.arg > 0 /\ ret.arg # team[ret.who].active_index
    /\ ValidIndex(team[ret.who].pokemons, ret.arg)
    /\ is_fainted(At(team[ret.who].pokemons, ret.arg))

\* --------------------------------------------------------------------- C11
\* C11: in every state of a battle, is_defeated() of a team is true exactly
\* when the current health of every member of its roster is 0.
C11_DefeatedIffAllZero ==
    \A t \in Teams :
        is_defeated(team[t])
          <=> \A i \in Members(t) : team[t].pokemons[i].current_stats.health = 0

\* a finished battle: one roster of several members all at 0, the other
\* team undefeated although it has lost a member
C11_Witness ==
    /\ pc = "returned"
    /\ \E t \in Teams :
          /\ Len(team[t].pokemons) >= 2 /\ is_defeated(team[t])
          /\ ~is_defeated(team[3 - t])
          /\ \E i \in Members(3 - t) : team[3 - t].pokemons[i].current_stats.health = 0

\* --------------------------------------------------------------------- C12
\* the loop test, the first attacker's block of a turn, and the exit
AtTurnBoundary == pc \in {"while", "first"} \/ Finished

\* C12: at the start of every turn and at the exit, each team that is not
\* defeated has a valid active_index and an active member with health > 0;
\* a fainted member is on the field only from its fainting to the end of
\* that turn.
C12_ActiveAlive ==
    AtTurnBoundary =>
        \A t \in Teams :
            ~is_defeated(team[t]) =>
                /\ team[t].active_index \in 0..(Len(team[t].pokemons) - 1)
                /\ active_pokemon(team[t]).current_stats.health > 0

\* a team whose first member fainted starts the next turn with a replacement
C12_Witness ==
    /\ pc = "first" /\ turn_count >= 2
    /\ \E t \in Teams :
          /\ team[t].active_index > 0
          /\ team[t].pokemons[1].current_stats.health = 0
          /\ active_pokemon(team[t]).current_stats.health > 0

\* --------------------------------------------------------------------- C13
\* what a reader of the record sees: a field that is the live object itself
\* shows that object's present state, a copy shows what was copied
Seen(obj, live_obj) == IF "live" \in DOMAIN obj THEN [live |-> TRUE] @@ live_obj ELSE obj

Reading(h) ==
    LET attacker == Member(h.attacker)
    IN  [h.result EXCEPT !.attacker = Seen(@, attacker),
                         !.defender = Seen(@, Member(h.defender)),
                         !.move     = Seen(@, attacker.moves[h.move])]

\* C13: an Attack record returned by compute_theoretical_attack,
\* calculate_damage or resolve_interaction reads the same after any later
\* take_damage, heal, PP decrement or stage adjustment on the live attacker,
\* defender or move.
C13_RecordIsSnapshot ==
    [][(held # <<>> /\ held' = held) => Reading(held[1])' = Reading(held[1])]_vars

\* a record is held and take_damage has since lowered the live defender's
\* health below the health the record shows
C13_Witness ==
    /\ held # <<>>
    /\ ret.op = "take_damage" /\ ret.who = held[1].defender
    /\ Member(held[1].defender).current_stats.health
          < held[1].result.defender.current_stats.health
    /\ Reading(held[1]) = held[1].result

\* --------------------------------------------------------------------- C14
AddMoveStep == calls' = calls + 1 /\ ret'.op = "add_move"

\* C14: after any sequence of add_move calls every combatant has at most 4
\* moves; add_move on a combatant that has 4 moves raises and leaves its
\* move list as it was.
C14_AtMostFourMoves ==
    [][AddMoveStep =>
          /\ \A ref \in Refs : Len(Member(ref).moves') <= 4
          /\ \A who \in {ret'.who} :
                /\ Len(Member(who).moves) = 4 =>
                      /\ ret'.raised = "Exception"
                      /\ Member(who).moves' = Member(who).moves
                /\ Len(Member(who).moves) < 4 => ret'.raised = ""]_vars

\* a member with three moves was given a fourth, and the next add_move on it
\* was refused
C14_Witness ==
    /\ ret.op = "add_move" /\ ret.raised = "Exception"
    /\ Len(Member(ret.who).moves) = 4
    /\ Member(ret.who).moves[4].name = "Growl"

\* --------------------------------------------------------------------- C15
\* C15: when the attack of resolve_interaction is missed because the accuracy
\* check failed, the PP of every move of the attacker stays as it was; PP is
\* decremented only when the attack is not missed.
C15_NoPPLossOnMiss ==
    [][ResolveStep =>
          \A a \in {ret'.who} :
              ret'.result.missed =>
                  \A i \in 1..Len(active_pokemon(team[a]).moves) :
                      active_pokemon(team[a]).moves'[i].pp
                        = active_pokemon(team[a]).moves[i].pp]_vars

\* --------------------------------------------------------------------- C16
FullTurnStep == calls' = calls + 1 /\ ret'.op = "full_turn_interaction"

\* the move the selector picks for team a's active member against the other
BestOf(a) ==
    find_best_move(active_pokemon(team[a]), active_pokemon(team[3 - a]), FALSE,
                   NoDraws(active_pokemon(team[a]))).move

\* C16: in full_turn_interaction, when the two selected moves were created
\* with different priorities, the combatant whose move was created with the
\* strictly higher priority executes the first half-turn, whatever the speeds.
C16_PriorityFirst ==
    [][(FullTurnStep /\ ret'.raised = "") =>
          \A a \in {ret'.who} :
            \A c1 \in {CreatedPriority(BestOf(a).name)},
               c2 \in {CreatedPriority(BestOf(3 - a).name)} :
                /\ c1 > c2 => ret'.first[1] = a
                /\ c2 > c1 => ret'.first[1] = 3 - a]_vars

\* --------------------------------------------------------------------- C17
ActiveSpeed(t) == active_pokemon(team[t]).current_stats.speed

\* C17: in simulate_battle the team whose active member has the strictly
\* higher current speed attacks first in the turn; when the speeds are equal
\* the order is drawn at random, so either team can be the first attacker.
C17_SpeedOrder ==
    /\ pc = "first" =>
          /\ ActiveSpeed(1) > ActiveSpeed(2) => first_team = 1
          /\ ActiveSpeed(2) > ActiveSpeed(1) => first_team = 2
    /\ (pc = "while" /\ LoopCondition /\ ActiveSpeed(1) = ActiveSpeed(2)) =>
          \A t \in Teams : ENABLED (turn_start /\ first_team' = t)

\* --------------------------------------------------------------------- C18
\* C18: once stage adjustments on the attacker's battle (current) stats have
\* raised its crit stage to 3, every attack of it that is not missed is a
\* critical hit.
C18_MaxStageAlwaysCrits ==
    [][ResolveStep =>
          \A a \in {ret'.who} :
              (active_pokemon(team[a]).current_stats.critChance = 3
                 /\ ~ret'.result.missed) => ret'.result.crit]_vars

SecondAttackStep == pc = "second" /\ pc' = "switch"

\* the PP left over all the moves of a combatant
RECURSIVE PPFrom(_, _)
PPFrom(moves, i) == IF i > Len(moves) THEN 0 ELSE moves[i].pp + PPFrom(moves, i + 1)
PPTotal(p) == PPFrom(p.moves, 1)

OneFirst(a, r1, r2) ==
    ScoreGE(score(BestOf(a), active_pokemon(team[a]), r1),
            score(BestOf(3 - a), active_pokemon(team[3 - a]), r2))

AutoSwitchStep == pc = "switch" /\ pc' = "while"

\* the roster indexes of the benched members of t that still have health
BenchedStanding(t) ==
    { i \in 0..(Len(t.pokemons) - 1) :
        i # t.active_index /\ At(t.pokemons, i).current_stats.health > 0 }

\* C22: at the end of a simulate_battle turn, for each team whose active
\* member has 0 health: if some benched member is not fainted, the benched
\* non-fainted member of lowest index becomes active and a switch is logged;
\* if there is none, active_index is unchanged and the team is defeated.
C22_AutoSwitchLowest ==
    [][AutoSwitchStep =>
        \A t \in Teams :
          active_pokemon(team[t]).current_stats.health = 0 =>
            IF BenchedStanding(team[t]) # {}
            THEN /\ team'[t].active_index \in BenchedStanding(team[t])
                 /\ \A i \in BenchedStanding(team[t]) : team'[t].active_index <= i
                 /\ \E k \in (Len(battle_log) + 1)..Len(battle_log') :
                       battle_log'[k] = SwitchEntry(team[t].name,
                                                    active_pokemon(team[t]).name,
                                                    active_pokemon(team'[t]).name)
            ELSE /\ team'[t].active_index = team[t].active_index
                 /\ is_defeated(team'[t])]_vars

\* a team of three whose first member fainted sent its second member in,
\* the third still standing, and the switch was logged
C22_Witness ==
    /\ pc = "while"
    /\ \E t \in Teams :
          /\ Len(team[t].pokemons) = 3
          /\ team[t].active_index = 1
          /\ team[t].pokemons[1].current_stats.health = 0
          /\ team[t].pokemons[3].current_stats.health > 0
          /\ \E k \in 1..Len(battle_log) :
                /\ battle_log[k].kind = "switch"
                /\ battle_log[k].target = team[t].pokemons[2].name

\* --------------------------------------------------------------------- C23
TheoreticalStep == ret'.op = "compute_theoretical_attack" /\ calls' = calls + 1

\* C23: compute_theoretical_attack returns a Determined result, whose
\* effective_damage is the defender's current health and differs from the
\* Undetermined marker -1, iff the minimum of the damage range reaches the
\* defender's current health; otherwise it returns Undetermined.
C23_DeterminedIffMinReaches ==
    [][TheoreticalStep =>
        \A health \in {active_pokemon(team[3 - ret'.who]).current_stats.health} :
          /\ ret'.result.damage_range[1]
                = MinDamage(active_pokemon(team[ret'.who]),
                            active_pokemon(team[3 - ret'.who]), ret'.arg)
          /\ IF ret'.result.damage_range[1] >= 100 * health
             THEN ret'.result.effective_damage = health
                    /\ ret'.result.effective_damage # -1
             ELSE ret'.result.effective_damage = -1]_vars

\* a Determined result against a defender that still has health, and whose
\* range would be the same with more health left
C23_Witness ==
    /\ ret.op = "compute_theoretical_attack"
    /\ ret.result.effective_damage > 0
    /\ ret.result.damage_range[1] >= 100 * ret.result.effective_damage

\* --------------------------------------------------------------------- C24
\* the earliest of the moves of S whose damage-range minimum is the largest
LargestMinFirst(attacker, defender, S) ==
    CHOOSE i \in S : \A j \in S :
        \/ MinDamage(attacker, defender, j) < MinDamage(attacker, defender, i)
        \/ MinDamage(attacker, defender, j) = MinDamage(attacker, defender, i) /\ i <= j

\* C24: when no move of the attacker is Determined, find_best_move returns
\* the move whose damage-range minimum is the largest, the earliest of the
\* move list among equal minimums.
C24_LargestMinimum ==
    (ret.op = "find_best_move" /\ ret.raised = ""
       /\ DeterminedMoves(CallAttacker, CallDefender) = {}) =>
        /\ ret.result.effective_damage = -1
        /\ ret.result.move
             = CallAttacker.moves[LargestMinFirst(CallAttacker, CallDefender,
                                                  1..Len(CallAttacker.moves))]

\* no Determined move, and two moves share the largest minimum
C24_Witness ==
    /\ ret.op = "find_best_move" /\ ret.raised = ""
    /\ DeterminedMoves(CallAttacker, CallDefender) = {}
    /\ \E i, j \in 1..Len(CallAttacker.moves) :
          /\ i < j
          /\ ret.result.move = CallAttacker.moves[i]
          /\ CallAttacker.moves[j].name # CallAttacker.moves[i].name
          /\ MinDamage(CallAttacker, CallDefender, i) = MinDamage(CallAttacker, CallDefender, j)
          /\ MinDamage(CallAttacker, CallDefender, i) > 0

\* --------------------------------------------------------------------- C25
\* the PP of a combatant's moves, in the order of its list
PPs(p) == [i \in 1..Len(p.moves) |-> p.moves[i].pp]

\* the same after one use of the combatant's own move of this name
PPsAfterUse(p, name) ==
    [i \in 1..Len(p.moves) |->
        IF i = FirstNamed(p.moves, name, 1) THEN p.moves[i].pp - 1 ELSE p.moves[i].pp]

\* the combatant has a move of this name with PP left
HasPPFor(p, name) ==
    /\ FirstNamed(p.moves, name, 1) # 0
    /\ p.moves[FirstNamed(p.moves, name, 1)].pp > 0

BenchUnchanged ==
    \A t \in Teams : \A k \in 1..Len(team[t].pokemons) :
        k # Norm(team[t].pokemons, team[t].active_index) + 1 =>
            team'[t].pokemons[k] = team[t].pokemons[k]

\* the half-turns of a returned exchange whose attacker is team t's member
HalfTurnsOf(r, t) ==
    (IF r.first[1] = t THEN {r.first} ELSE {})
      \cup (IF r.second # NoHalfTurn /\ r.first[1] # t THEN {r.second} ELSE {})

\* C25: each resolve_interaction that is not missed, called with the move
\* find_best_move returned, takes exactly 1 from the PP of the attacker's own
\* move of that name, which had PP left, and changes the PP of no other move
\* of either combatant.
C25_OnePPOfTheUsedMove ==
    [][/\ (HalfExchangeStep /\ ~attack_result'.missed) =>
             \A a \in {AttackerOfStep} :
                 /\ HasPPFor(active_pokemon(team[a]), best_move'.move.name)
                 /\ PPs(active_pokemon(team'[a]))
                       = PPsAfterUse(active_pokemon(team[a]), best_move'.move.name)
                 /\ PPs(active_pokemon(team'[3 - a])) = PPs(active_pokemon(team[3 - a]))
                 /\ BenchUnchanged
       /\ (FullTurnStep /\ ret'.raised = "") =>
             /\ BenchUnchanged
             /\ \A t \in Teams :
                   /\ HalfTurnsOf(ret', t) = {} =>
                         PPs(active_pokemon(team'[t])) = PPs(active_pokemon(team[t]))
                   /\ \A h \in HalfTurnsOf(ret', t) :
                         ~h[4].missed =>
                            /\ HasPPFor(active_pokemon(team[t]), h[3].name)
                            /\ PPs(active_pokemon(team'[t]))
                                  = PPsAfterUse(active_pokemon(team[t]), h[3].name)]_vars

\* a hit with the second move of the attacker's list, its last PP, while the
\* first move keeps its PP
C25_Witness ==
    /\ pc \in {"second", "switch"}
    /\ battle_log # <<>>
    /\ battle_log[Len(battle_log)].kind \in {"hit", "ko"}
    /\ ~attack_result.missed
    /\ FirstNamed(attack_result.attacker.moves, attack_result.move.name, 1) = 2
    /\ attack_result.attacker.moves[2].pp = 0
    /\ attack_result.attacker.moves[1].pp > 0

\* --------------------------------------------------------------------- C26
\* the three stage counters of a Stats object
Stages(stats) == <<stats.accuracy, stats.evasion, stats.critChance>>

\* the counters after an operation that moves counter k by d within lo..hi
Moved(stages, k, d, lo, hi) ==
    IF stages[k] + d \in lo..hi THEN [stages EXCEPT ![k] = @ + d] ELSE stages

StagesAfter(op, stages) ==
    CASE op = "increase_accuracy"    -> Moved(stages, 1, 1, 0, 12)
      [] op = "decrease_accuracy"    -> Moved(stages, 1, -1, 0, 12)
      [] op = "increase_evasion"     -> Moved(stages, 2, 1, 0, 12)
      [] op = "decrease_evasion"     -> Moved(stages, 2, -1, 0, 12)
      [] op = "increase_crit_chance" -> Moved(stages, 3, 1, 0, 3)
      [] op = "decrease_crit_chance" -> Moved(stages, 3, -1, 0, 3)

StageOps == {"increase_accuracy", "decrease_accuracy", "increase_evasion",
             "decrease_evasion", "increase_crit_chance", "decrease_crit_chance"}

\* C26: after any sequence of increase / decrease stage operations on a Stats
\* object its accuracy and evasion stages are in 0..12 and its critical stage
\* in 0..3; an operation at the bound leaves the counter as it is, without
\* raising, and any other operation changes it by exactly 1.
C26_StagesBounded ==
    /\ [](\A t \in Teams : \A k \in 1..Len(team[t].pokemons) :
            /\ team[t].pokemons[k].current_stats.accuracy \in 0..12
            /\ team[t].pokemons[k].current_stats.evasion \in 0..12
            /\ team[t].pokemons[k].current_stats.critChance \in 0..3)
    /\ [][ret'.op \in StageOps =>
            \A t \in {ret'.who} :
              /\ Stages(active_pokemon(team'[t]).current_stats)
                    = StagesAfter(ret'.op, Stages(active_pokemon(team[t]).current_stats))
              /\ Stages(active_pokemon(team'[3 - t]).current_stats)
                    = Stages(active_pokemon(team[3 - t]).current_stats)]_vars

\* the three counters of one Stats object at a bound, after an increase of
\* the accuracy stage
C26_Witness ==
    /\ ret.op = "increase_accuracy"
    /\ Stages(active_pokemon(team[ret.who]).current_stats) = <<12, 0, 3>>

\* --------------------------------------------------------------------- C27
\* C27: a successful switch_to, the orchestrator's auto-switch included,
\* changes only the team's active_index: no member's health, stage counters
\* or move PP is reset or otherwise modified.
C27_SwitchChangesIndexOnly ==
    [][((SwitchStep /\ ret'.raised = "") \/ AutoSwitchStep) =>
          \A t \in Teams :
             /\ team'[t].pokemons = team[t].pokemons
             /\ team'[t].name = team[t].name]_vars

\* a caller's switch that succeeded, the member that left the field keeping
\* a raised critical stage and a move without PP
C27_Witness ==
    /\ ret.op = "switch_to" /\ ret.raised = ""
    /\ \E k \in 1..Len(team[ret.who].pokemons) :
          /\ k # Norm(team[ret.who].pokemons, team[ret.who].active_index) + 1
          /\ team[ret.who].pokemons[k].current_stats.critChance > 0
          /\ \E i \in 1..Len(team[ret.who].pokemons[k].moves) :
                team[ret.who].pokemons[k].moves[i].pp = 0

\* --------------------------------------------------------------------- C28
\* C28: in simulate_battle at most one active member faints per turn, so
\* from two teams that are not defeated no state is reached where both teams
\* are defeated, and the winner test never names a defeated team the winner.
C28_NeverBothDefeated ==
    /\ ~(is_fainted(active_pokemon(team[1])) /\ is_fainted(active_pokemon(team[2])))
    /\ ~(is_defeated(team[1]) /\ is_defeated(team[2]))
    /\ (pc = "returned" /\ winner # None) => ~is_defeated(team[TeamNamed(winner)])

\* the end of the attacks of a turn in which the last member of a roster of
\* several fainted, the other team's active member standing
C28_Witness ==
    /\ pc = "switch"
    /\ \E t \in Teams :
          /\ Len(team[t].pokemons) > 1
          /\ is_defeated(team[t])
          /\ ~is_fainted(active_pokemon(team[3 - t]))

\* --------------------------------------------------------------------- C29
\* the position in the roster (from 1) of the active member
ActivePosition(t) == Norm(t.pokemons, t.active_index) + 1

\* C29: during simulate_battle each team's active_index never decreases:
\* benched members never lose health and nothing restores health, so every
\* auto-switch moves to a strictly higher roster index and a fainted member
\* is never active again.
C29_ActiveIndexMonotone ==
    [][pc # "idle" =>
        \A t \in Teams :
          /\ team'[t].active_index >= team[t].active_index
          /\ \A k \in 1..Len(team[t].pokemons) :
                /\ team'[t].pokemons[k].current_stats.health
                      <= team[t].pokemons[k].current_stats.health
                /\ k # ActivePosition(team[t]) =>
                      team'[t].pokemons[k].current_stats.health
                        = team[t].pokemons[k].current_stats.health
                /\ (team[t].pokemons[k].current_stats.health = 0
                      /\ k # ActivePosition(team[t])) => k # ActivePosition(team'[t])
          /\ (AutoSwitchStep /\ team'[t].active_index # team[t].active_index) =>
                /\ team'[t].active_index > team[t].active_index
                /\ \A k \in 1..ActivePosition(team'[t]) - 1 :
                      team'[t].pokemons[k].current_stats.health = 0]_vars

\* the third member of a roster on the field, the first two fainted
C29_Witness ==
    /\ pc \in {"while", "first"}
    /\ \E t \in Teams :
          /\ team[t].active_index = 2
          /\ team[t].pokemons[1].current_stats.health = 0
          /\ team[t].pokemons[2].current_stats.health = 0
          /\ team[t].pokemons[3].current_stats.health > 0

\* --------------------------------------------------------------------- C30
\* the PP values given to the moves of the two combatants
PPValues == {0, 1, 2}

\* the combatant with its moves' PP replaced by pps
WithPPs(p, pps) ==
    [p EXCEPT !.moves = [i \in 1..Len(p.moves) |-> [p.moves[i] EXCEPT !.pp = pps[i]]]]

\* a move without its PP
Selected(move) == [move EXCEPT !.pp = 0]

\* C30: the move find_best_move returns does not depend on the remaining PP
\* of any move: in two states that differ only in PP values the same move is
\* selected, so a move with 0 PP can be selected while another has PP left.
C30_SelectionIgnoresPP ==
    [][(FindBestMoveStep /\ ret'.raised = "") =>
         \A attacker \in {active_pokemon(team[ret'.who])},
            defender \in {active_pokemon(team[3 - ret'.who])} :
           \A pps \in [1..Len(attacker.moves) -> PPValues],
              qqs \in {[i \in 1..Len(defender.moves) |-> q] : q \in PPValues} :
              Selected(find_best_move(WithPPs(attacker, pps), WithPPs(defender, qqs),
                                      FALSE, NoDraws(attacker)).move)
                = Selected(ret'.result.move)]_vars

\* the move selected has no PP left while another move of the caller has
C30_Witness ==
    /\ ret.op = "find_best_move" /\ ret.raised = ""
    /\ ret.result.move.pp = 0
    /\ \E i \in 1..Len(CallAttacker.moves) :
          /\ CallAttacker.moves[i].name # ret.result.move.name
          /\ CallAttacker.moves[i].pp > 0
    /\ \E i \in 1..Len(CallAttacker.moves) :
          /\ CallAttacker.moves[i].name = ret.result.move.name
          /\ CallAttacker.moves[i].pp = 0

====
